---- MODULE Spec2Model ----
(***************************************************************************)
(* strict-env: parse, parse_optional and parse_or_default (src/src/lib.rs) *)
(* as a state machine over the process environment.                        *)
(*                                                                         *)
(* Text and raw values are sequences of bytes (a Rust String is its UTF-8  *)
(* bytes; an OsString on Unix is arbitrary bytes).  One caller runs the    *)
(* three functions step by step; in SpecConc other code of the process     *)
(* sets and removes variables between any two steps.                       *)
(***************************************************************************)
EXTENDS Integers, Sequences, FiniteSets, TLC

VARIABLES
    env,           \* the process environment: name -> slot
    pc,            \* the caller's position in the code
    call,          \* the running call: [fn, name, T]
    value_result,  \* lib.rs:68   let value_result = env::var(name)
    value,         \* lib.rs:69   let value = match value_result { .. }
    result,        \* the value being returned up the call chain
    shown,         \* error.to_string() of a returned error
    queries,       \* number of environment queries made by the running call
    convs,         \* the texts T::from_str was invoked with by the running call
    seen,          \* the slot of the queried variable at the instant of the query
    steps,         \* number of steps the running call has taken
    env0           \* the environment before the first call

vars == <<env, pc, call, value_result, value, result, shown, queries, convs, seen, steps, env0>>

----------------------------------------------------------------------------
(* Bounds and input sets *)

\* longest raw value an environment variable holds in Spec
MaxLen == 3
\* longest raw value other code writes in SpecConc
MutLen == 1

\* '+', '2', '5', '6', a UTF-8 continuation byte, a UTF-8 two-byte lead
Bytes == {43, 50, 53, 54, 128, 194}
\* '5', continuation byte, two-byte lead
MutBytes == {53, 128, 194}

\* the variable names:  V   and   "\   (a name Debug formatting escapes)
Names == { <<86>>, <<34, 92>> }

Types == {"u8", "String"}
Fns == {"parse", "parse_optional", "parse_or_default"}

RawsOf(alphabet, n) == UNION { [1..k -> alphabet] : k \in 0..n }

Absent == [present |-> FALSE]
Present(raw) == [present |-> TRUE, raw |-> raw]

Slots == {Absent} \cup { Present(r) : r \in RawsOf(Bytes, MaxLen) }
MutRaws == RawsOf(MutBytes, MutLen)
\* what the variable that is not under test holds in Spec: absent, "", "5"
OtherSlots == {Absent, Present(<<>>), Present(<<53>>)}

----------------------------------------------------------------------------
(* Values *)

Ok(v) == [kind |-> "Ok", val |-> v]
Missing(name) == [kind |-> "Missing", name |-> name]
InvalidUtf8(name, raw) == [kind |-> "InvalidUtf8", name |-> name, value |-> raw]
InvalidValue(name, text, source) ==
    [kind |-> "InvalidValue", name |-> name, value |-> text, source |-> source]

Some(v) == [some |-> TRUE, v |-> v]
None == [some |-> FALSE]

U8(n) == [ty |-> "u8", n |-> n]
Str(s) == [ty |-> "String", s |-> s]
ParseIntError(kind) == [ty |-> "ParseIntError", kind |-> kind]

NoCall == [fn |-> "none"]
NoValueResult == [ok |-> FALSE, err |-> "unset"]
NoResult == [kind |-> "none"]
NoSlot == [present |-> FALSE, unset |-> TRUE]
NoText == <<0>>

----------------------------------------------------------------------------
(* std::env::var: the lookup and the strict UTF-8 validation of the value *)

Cont(b) == b \in 128..191

RECURSIVE IsUtf8(_)
IsUtf8(b) ==
    IF b = <<>> THEN TRUE
    ELSE LET f == b[1]
             n == Len(b)
         IN  IF f < 128 THEN IsUtf8(Tail(b))
             ELSE IF f \in 194..223
                  THEN n >= 2 /\ Cont(b[2]) /\ IsUtf8(SubSeq(b, 3, n))
             ELSE IF f \in 224..239
                  THEN /\ n >= 3
                       /\ \/ f = 224 /\ b[2] \in 160..191
                          \/ f \in 225..236 /\ Cont(b[2])
                          \/ f = 237 /\ b[2] \in 128..159
                          \/ f \in 238..239 /\ Cont(b[2])
                       /\ Cont(b[3])
                       /\ IsUtf8(SubSeq(b, 4, n))
             ELSE IF f \in 240..244
                  THEN /\ n >= 4
                       /\ \/ f = 240 /\ b[2] \in 144..191
                          \/ f \in 241..243 /\ Cont(b[2])
                          \/ f = 244 /\ b[2] \in 128..143
                       /\ Cont(b[3]) /\ Cont(b[4])
                       /\ IsUtf8(SubSeq(b, 5, n))
             ELSE FALSE

\* a lookup that hands back a lossy text instead of the raw bytes
env_var_lossy(e, name) ==
    IF ~e[name].present THEN [ok |-> FALSE, err |-> "NotPresent"]
    ELSE IF IsUtf8(e[name].raw) THEN [ok |-> TRUE, value |-> e[name].raw]
    ELSE [ok |-> FALSE, err |-> "NotUnicode",
          value |-> SelectSeq(e[name].raw, LAMBDA c : c < 128)]

env_var(e, name) ==
    IF ~e[name].present THEN [ok |-> FALSE, err |-> "NotPresent"]
    ELSE IF IsUtf8(e[name].raw) THEN [ok |-> TRUE, value |-> e[name].raw]
    ELSE [ok |-> FALSE, err |-> "NotUnicode", value |-> e[name].raw]

----------------------------------------------------------------------------
(* T::from_str for the target types u8 and String, and T::default() *)

RECURSIVE u8_accumulate(_, _)
u8_accumulate(digits, acc) ==
    IF digits = <<>> THEN [ok |-> TRUE, val |-> U8(acc)]
    ELSE LET c == digits[1]
             mul == acc * 10
         IN  IF c \notin 48..57 THEN [ok |-> FALSE, err |-> ParseIntError("InvalidDigit")]
             ELSE IF mul > 255 THEN [ok |-> FALSE, err |-> ParseIntError("PosOverflow")]
             ELSE IF mul + (c - 48) > 255
                  THEN [ok |-> FALSE, err |-> ParseIntError("PosOverflow")]
             ELSE u8_accumulate(Tail(digits), mul + (c - 48))

u8_from_str(s) ==
    IF Len(s) = 0 THEN [ok |-> FALSE, err |-> ParseIntError("Empty")]
    ELSE IF Len(s) = 1 /\ s[1] \in {43, 45}
         THEN [ok |-> FALSE, err |-> ParseIntError("InvalidDigit")]
    ELSE u8_accumulate(IF s[1] = 43 THEN Tail(s) ELSE s, 0)

from_str(T, s) ==
    IF T = "u8" THEN u8_from_str(s) ELSE [ok |-> TRUE, val |-> Str(s)]

Default(T) == IF T = "u8" THEN U8(0) ELSE Str(<<>>)

----------------------------------------------------------------------------
(* parse, lib.rs:64-104 *)

Return(r) == [ret |-> TRUE, result |-> r]
Continue(v) == [ret |-> FALSE, value |-> v]

\* the match without the is_empty test
classify_no_empty_check(vr, name) ==
    IF vr.ok THEN Continue(vr.value)
    ELSE IF vr.err = "NotPresent" THEN Return(Missing(name))
    ELSE Return(InvalidUtf8(name, vr.value))

\* env::var(name).unwrap_or_default(): no variable reads as the empty text
classify_unwrap_or_default(vr, name) ==
    IF vr.ok THEN (IF Len(vr.value) = 0 THEN Return(Missing(name)) ELSE Continue(vr.value))
    ELSE IF vr.err = "NotPresent" THEN Continue(<<>>)
    ELSE Return(InvalidUtf8(name, vr.value))

\* every lookup failure reported as Missing
classify_all_errors_missing(vr, name) ==
    IF vr.ok THEN (IF Len(vr.value) = 0 THEN Return(Missing(name)) ELSE Continue(vr.value))
    ELSE Return(Missing(name))

classify(vr, name) ==
    IF vr.ok
    THEN IF Len(vr.value) = 0 THEN Return(Missing(name)) ELSE Continue(vr.value)
    ELSE IF vr.err = "NotPresent" THEN Return(Missing(name))
    ELSE Return(InvalidUtf8(name, vr.value))

\* the error keeps the parsed prefix of the text instead of the text
convert_truncating(text, name, T) ==
    LET r == from_str(T, text)
    IN  IF r.ok THEN Ok(r.val) ELSE InvalidValue(name, SubSeq(text, 1, Len(text) - 1), r.err)

convert(text, name, T) ==
    LET r == from_str(T, text)
    IN  IF r.ok THEN Ok(r.val) ELSE InvalidValue(name, text, r.err)

parse(e, name, T) ==
    LET c == classify(env_var(e, name), name)
    IN  IF c.ret THEN c.result ELSE convert(c.value, name, T)

----------------------------------------------------------------------------
(* parse_optional, lib.rs:114-124, and parse_or_default, lib.rs:134-139 *)

\* every error of parse reported as "no value"
optional_match_swallowing(r) ==
    IF r.kind = "Ok" THEN Ok(Some(r.val)) ELSE Ok(None)

optional_match(r) ==
    IF r.kind = "Ok" THEN Ok(Some(r.val))
    ELSE IF r.kind = "Missing" THEN Ok(None)
    ELSE r

parse_optional(e, name, T) == optional_match(parse(e, name, T))

\* parse_optional(name).ok().flatten().unwrap_or_default()
default_map_defaulting_errors(r, T) ==
    IF r.kind = "Ok" /\ r.val.some THEN Ok(r.val.v) ELSE Ok(Default(T))

default_map(r, T) ==
    IF r.kind = "Ok"
    THEN Ok(IF r.val.some THEN r.val.v ELSE Default(T))
    ELSE r

parse_or_default(e, name, T) == default_map(parse_optional(e, name, T), T)

----------------------------------------------------------------------------
(* Display of Error, lib.rs:141-171, over ASCII names *)

\* "Missing or empty environment variable "
MissingPrefix ==
    <<77, 105, 115, 115, 105, 110, 103, 32, 111, 114, 32, 101, 109, 112, 116, 121, 32,
      101, 110, 118, 105, 114, 111, 110, 109, 101, 110, 116, 32,
      118, 97, 114, 105, 97, 98, 108, 101, 32>>
\* "Invalid UTF-8 in environment variable "
InvalidUtf8Prefix ==
    <<73, 110, 118, 97, 108, 105, 100, 32, 85, 84, 70, 45, 56, 32, 105, 110, 32,
      101, 110, 118, 105, 114, 111, 110, 109, 101, 110, 116, 32,
      118, 97, 114, 105, 97, 98, 108, 101, 32>>
\* "Error parsing environment variable "
InvalidValuePrefix ==
    <<69, 114, 114, 111, 114, 32, 112, 97, 114, 115, 105, 110, 103, 32,
      101, 110, 118, 105, 114, 111, 110, 109, 101, 110, 116, 32,
      118, 97, 114, 105, 97, 98, 108, 101, 32>>
\* "cannot parse integer from empty string"
EmptyMsg ==
    <<99, 97, 110, 110, 111, 116, 32, 112, 97, 114, 115, 101, 32,
      105, 110, 116, 101, 103, 101, 114, 32, 102, 114, 111, 109, 32,
      101, 109, 112, 116, 121, 32, 115, 116, 114, 105, 110, 103>>
\* "invalid digit found in string"
InvalidDigitMsg ==
    <<105, 110, 118, 97, 108, 105, 100, 32, 100, 105, 103, 105, 116, 32,
      102, 111, 117, 110, 100, 32, 105, 110, 32, 115, 116, 114, 105, 110, 103>>
\* "number too large to fit in target type"
PosOverflowMsg ==
    <<110, 117, 109, 98, 101, 114, 32, 116, 111, 111, 32, 108, 97, 114, 103, 101, 32,
      116, 111, 32, 102, 105, 116, 32, 105, 110, 32,
      116, 97, 114, 103, 101, 116, 32, 116, 121, 112, 101>>

source_display(err) ==
    IF err.kind = "Empty" THEN EmptyMsg
    ELSE IF err.kind = "InvalidDigit" THEN InvalidDigitMsg
    ELSE PosOverflowMsg

HexDigit(d) == IF d < 10 THEN 48 + d ELSE 87 + d
Hex(c) == IF c < 16 THEN <<HexDigit(c)>> ELSE <<HexDigit(c \div 16), HexDigit(c % 16)>>

\* char::escape_debug as str's Debug applies it (the single quote is kept)
escape_char(c) ==
    IF c = 0 THEN <<92, 48>>
    ELSE IF c = 9 THEN <<92, 116>>
    ELSE IF c = 13 THEN <<92, 114>>
    ELSE IF c = 10 THEN <<92, 110>>
    ELSE IF c = 92 THEN <<92, 92>>
    ELSE IF c = 34 THEN <<92, 34>>
    ELSE IF c < 32 \/ c = 127 THEN <<92, 117, 123>> \o Hex(c) \o <<125>>
    ELSE <<c>>

\* the name written as it is, {name}
escape_debug_verbatim(s) == s

RECURSIVE escape_debug(_)
escape_debug(s) ==
    IF s = <<>> THEN <<>> ELSE escape_char(s[1]) \o escape_debug(Tail(s))

\* {name:?}
debug_fmt(s) == <<34>> \o escape_debug(s) \o <<34>>

Display(err) ==
    IF err.kind = "Missing" THEN MissingPrefix \o debug_fmt(err.name)
    ELSE IF err.kind = "InvalidUtf8" THEN InvalidUtf8Prefix \o debug_fmt(err.name)
    ELSE InvalidValuePrefix \o debug_fmt(err.name) \o <<58, 32>> \o source_display(err.source)

----------------------------------------------------------------------------
(* The caller, one step per statement *)

Call(f, n, T) ==
    /\ pc = "idle"
    /\ pc' = "query"
    /\ call' = [fn |-> f, name |-> n, T |-> T]
    /\ UNCHANGED <<env, value_result, value, result, shown, queries, convs, seen, steps, env0>>

\* the lookup takes the variable out of the environment
QueryRemoving ==
    /\ pc = "query"
    /\ value_result' = env_var(env, call.name)
    /\ env' = [env EXCEPT ![call.name] = Absent]
    /\ seen' = env[call.name]
    /\ queries' = queries + 1
    /\ steps' = steps + 1
    /\ pc' = "classify"
    /\ UNCHANGED <<call, value, result, shown, convs, env0>>

\* lib.rs:68
Query ==
    /\ pc = "query"
    /\ value_result' = env_var(env, call.name)
    /\ seen' = env[call.name]
    /\ queries' = queries + 1
    /\ steps' = steps + 1
    /\ pc' = "classify"
    /\ UNCHANGED <<env, call, value, result, shown, convs, env0>>

\* the match looks the variable up a second time
ClassifyRereading ==
    /\ pc = "classify"
    /\ LET c == classify(env_var(env, call.name), call.name)
       IN  IF c.ret
           THEN result' = c.result /\ pc' = "parse_ret" /\ value' = value
           ELSE value' = c.value /\ pc' = "convert" /\ result' = result
    /\ queries' = queries + 1
    /\ steps' = steps + 1
    /\ UNCHANGED <<env, call, value_result, shown, convs, seen, env0>>

\* lib.rs:69-91
Classify ==
    /\ pc = "classify"
    /\ LET c == classify(value_result, call.name)
       IN  IF c.ret
           THEN result' = c.result /\ pc' = "parse_ret" /\ value' = value
           ELSE value' = c.value /\ pc' = "convert" /\ result' = result
    /\ steps' = steps + 1
    /\ UNCHANGED <<env, call, value_result, shown, queries, convs, seen, env0>>

\* lib.rs:92-103
Convert ==
    /\ pc = "convert"
    /\ convs' = Append(convs, value)
    /\ result' = convert(value, call.name, call.T)
    /\ pc' = "parse_ret"
    /\ steps' = steps + 1
    /\ UNCHANGED <<env, call, value_result, value, shown, queries, seen, env0>>

\* parse returns to its caller
ReturnParse ==
    /\ pc = "parse_ret"
    /\ call.fn = "parse"
    /\ pc' = "done"
    /\ steps' = steps + 1
    /\ UNCHANGED <<env, call, value_result, value, result, shown, queries, convs, seen, env0>>

\* lib.rs:118-123
OptionalMatch ==
    /\ pc = "parse_ret"
    /\ call.fn \in {"parse_optional", "parse_or_default"}
    /\ result' = optional_match(result)
    /\ pc' = IF call.fn = "parse_optional" THEN "done" ELSE "optional_ret"
    /\ steps' = steps + 1
    /\ UNCHANGED <<env, call, value_result, value, shown, queries, convs, seen, env0>>

\* lib.rs:138
DefaultMap ==
    /\ pc = "optional_ret"
    /\ result' = default_map(result, call.T)
    /\ pc' = "done"
    /\ steps' = steps + 1
    /\ UNCHANGED <<env, call, value_result, value, shown, queries, convs, seen, env0>>

\* the caller renders a returned error: error.to_string()
to_string ==
    /\ pc = "done"
    /\ result.kind # "Ok"
    /\ shown = NoText
    /\ shown' = Display(result)
    /\ UNCHANGED <<env, pc, call, value_result, value, result, queries, convs, seen, steps, env0>>

\* the caller drops the result; the call's locals are gone
Finish ==
    /\ pc = "done"
    /\ pc' = "idle"
    /\ call' = NoCall
    /\ value_result' = NoValueResult
    /\ value' = <<>>
    /\ result' = NoResult
    /\ shown' = NoText
    /\ queries' = 0
    /\ convs' = <<>>
    /\ seen' = NoSlot
    /\ steps' = 0
    /\ UNCHANGED <<env, env0>>

(* Other code of the process: std::env::set_var and std::env::remove_var *)

SetVar(n, raw) ==
    /\ env[n] # Present(raw)
    /\ env' = [env EXCEPT ![n] = Present(raw)]
    /\ UNCHANGED <<pc, call, value_result, value, result, shown, queries, convs, seen, steps, env0>>

RemoveVar(n) ==
    /\ env[n].present
    /\ env' = [env EXCEPT ![n] = Absent]
    /\ UNCHANGED <<pc, call, value_result, value, result, shown, queries, convs, seen, steps, env0>>

----------------------------------------------------------------------------
(* Specifications *)

Locals ==
    /\ pc = "idle"
    /\ call = NoCall
    /\ value_result = NoValueResult
    /\ value = <<>>
    /\ result = NoResult
    /\ shown = NoText
    /\ queries = 0
    /\ convs = <<>>
    /\ seen = NoSlot
    /\ steps = 0

\* one variable holds any raw value up to MaxLen bytes, the other a slot of OtherSlots
Init ==
    /\ \E n \in Names : \E s \in Slots :
         env \in { e \in [Names -> OtherSlots \cup {s}] : e[n] = s }
    /\ env0 = env
    /\ Locals

InitConc ==
    /\ env = [n \in Names |-> Absent]
    /\ env0 = env
    /\ Locals

Step ==
    \/ Query
    \/ Classify
    \/ Convert
    \/ ReturnParse
    \/ OptionalMatch
    \/ DefaultMap

Next ==
    \/ \E f \in Fns, n \in Names, T \in Types : Call(f, n, T)
    \/ Step
    \/ to_string
    \/ Finish

NextConc ==
    \/ Next
    \/ \E n \in Names, raw \in MutRaws : SetVar(n, raw)
    \/ \E n \in Names : RemoveVar(n)

\* the environment is written by nobody while the caller runs
Spec == Init /\ [][Next]_vars

\* other code of the process writes the environment between any two steps
SpecConc == InitConc /\ [][NextConc]_vars

----------------------------------------------------------------------------
(* The claims *)

Returned(f) == pc = "done" /\ call.fn = f
Slot == env[call.name]
IsAbsent(sl) == ~sl.present
IsEmpty(sl) == sl.present /\ sl.raw = <<>>
IsInvalidText(sl) == sl.present /\ ~IsUtf8(sl.raw)
IsText(sl) == sl.present /\ IsUtf8(sl.raw) /\ sl.raw # <<>>

\* C1: parse returns Missing{name} when the variable is absent and when it is
\* present with the empty string, for every target type, also for one whose
\* conversion accepts the empty text; never InvalidValue, never success.
C1_EmptyIsMissing ==
    (Returned("parse") /\ (IsAbsent(Slot) \/ IsEmpty(Slot)))
        => result = Missing(call.name)

C1_Witness ==
    /\ Returned("parse")
    /\ call.T = "String"
    /\ IsEmpty(Slot)
    /\ result = Missing(call.name)

\* C2: for non-empty valid text t, parse returns Ok(v) exactly when the
\* conversion of t succeeds with v, and otherwise InvalidValue with the requested
\* name, the value t and the conversion's own failure as source.
C2_MirrorsConversion ==
    (Returned("parse") /\ IsText(Slot)) =>
        LET t == Slot.raw
            r == from_str(call.T, t)
        IN  /\ r.ok => result = Ok(r.val)
            /\ ~r.ok => /\ result.kind = "InvalidValue"
                        /\ result.name = call.name
                        /\ result.value = t
                        /\ result.source = r.err
                        /\ source_display(result.source) = source_display(r.err)

C2_Witness ==
    /\ Returned("parse")
    /\ call.T = "u8"
    /\ Slot = Present(<<50, 53, 54>>)
    /\ result = InvalidValue(call.name, <<50, 53, 54>>, ParseIntError("PosOverflow"))

\* C3: parse_optional returns Ok(None) exactly when parse on the same
\* environment returns Missing, Ok(Some(v)) exactly when parse returns Ok(v),
\* and otherwise the very error parse returns.
C3_OptionalFollowsParse ==
    Returned("parse_optional") =>
        LET p == parse(env, call.name, call.T)
        IN  /\ (result = Ok(None)) <=> (p.kind = "Missing")
            /\ (result.kind = "Ok" /\ result.val.some) <=> (p.kind = "Ok")
            /\ p.kind = "Ok" => result = Ok(Some(p.val))
            /\ p.kind \in {"InvalidUtf8", "InvalidValue"} => result = p

C3_Witness ==
    /\ Returned("parse_optional")
    /\ call.T = "u8"
    /\ IsText(Slot)
    /\ result.kind = "InvalidValue"
    /\ result = parse(env, call.name, call.T)

\* C4: parse_or_default returns Ok(default) when the variable is absent or
\* empty, Ok(v) when it holds text that converts to v, and the error of
\* parse_optional otherwise; never Missing, never the default for a broken value.
C4_DefaultOnlyWhenMissing ==
    Returned("parse_or_default") =>
        /\ result.kind # "Missing"
        /\ (IsAbsent(Slot) \/ IsEmpty(Slot)) => result = Ok(Default(call.T))
        /\ (IsText(Slot) /\ from_str(call.T, Slot.raw).ok)
               => result = Ok(from_str(call.T, Slot.raw).val)
        /\ (IsInvalidText(Slot) \/ (IsText(Slot) /\ ~from_str(call.T, Slot.raw).ok))
               => /\ result.kind \in {"InvalidUtf8", "InvalidValue"}
                  /\ result = parse_optional(env, call.name, call.T)

C4_Witness ==
    /\ Returned("parse_or_default")
    /\ call.T = "u8"
    /\ IsInvalidText(Slot)
    /\ result = InvalidUtf8(call.name, Slot.raw)

\* C5: for a raw value that is not valid UTF-8, parse returns InvalidUtf8 with
\* the requested name and exactly the raw bytes of the environment, whatever the
\* target type; the conversion is not consulted.
C5_InvalidUtf8KeepsRawBytes ==
    (Returned("parse") /\ IsInvalidText(Slot)) =>
        /\ result = InvalidUtf8(call.name, Slot.raw)
        /\ convs = <<>>

C5_Witness ==
    /\ Returned("parse")
    /\ Slot = Present(<<53, 128>>)
    /\ result = InvalidUtf8(call.name, <<53, 128>>)

\* C6: every call of parse ends (each step taken enables the next, and a call
\* has at most five), with exactly
\* one of success, Missing, InvalidUtf8, InvalidValue, and which one is decided
\* by the slot's state and the conversion's result alone.
ExpectedKind(sl, T) ==
    IF IsAbsent(sl) THEN "Missing"
    ELSE IF IsInvalidText(sl) THEN "InvalidUtf8"
    ELSE IF IsEmpty(sl) THEN "Missing"
    ELSE IF from_str(T, sl.raw).ok THEN "Ok"
    ELSE "InvalidValue"

C6_OneOutcome ==
    /\ pc \notin {"idle", "done"} => (ENABLED Step) /\ steps <= 4
    /\ Returned("parse") =>
           /\ result.kind \in {"Ok", "Missing", "InvalidUtf8", "InvalidValue"}
           /\ result.kind = ExpectedKind(Slot, call.T)

C6_Witness ==
    /\ Returned("parse")
    /\ IsInvalidText(Slot)
    /\ result.kind = "InvalidUtf8"
    /\ call.T = "String"

\* C7: each call queries the environment exactly once and its outcome is the
\* outcome for the slot as it was at that query, also when other code changes
\* the variable during the call or between calls.
OutcomeFor(c, sl) ==
    LET e == [n \in Names |-> sl]
    IN  IF c.fn = "parse" THEN parse(e, c.name, c.T)
        ELSE IF c.fn = "parse_optional" THEN parse_optional(e, c.name, c.T)
        ELSE parse_or_default(e, c.name, c.T)

C7_SingleQuery ==
    /\ queries <= 1
    /\ pc \in {"classify", "convert", "parse_ret", "optional_ret", "done"} => queries = 1
    /\ pc = "done" => result = OutcomeFor(call, seen)

C7_Witness ==
    /\ pc = "done"
    /\ queries = 1
    /\ seen # Slot
    /\ result = OutcomeFor(call, seen)
    /\ result # OutcomeFor(call, Slot)

\* C8: the three functions leave the environment as it was: after any sequence
\* of calls every variable has the presence and the raw value it had before.
C8_EnvironmentUnchanged == env = env0

C8_Witness ==
    /\ pc = "done"
    /\ call.fn = "parse_or_default"
    /\ IsInvalidText(Slot)
    /\ result.kind = "InvalidUtf8"
    /\ env = env0

\* C9 as stated: the Display text holds the requested name itself between
\* double quotes.
Quoted(s) == <<34>> \o s \o <<34>>

TextWithName(err, shownName) ==
    IF err.kind = "Missing" THEN MissingPrefix \o shownName
    ELSE IF err.kind = "InvalidUtf8" THEN InvalidUtf8Prefix \o shownName
    ELSE InvalidValuePrefix \o shownName \o <<58, 32>> \o source_display(err.source)

RECURSIVE Backslashed(_)
Backslashed(s) ==
    IF s = <<>> THEN <<>>
    ELSE (IF s[1] \in {34, 92} THEN <<92, s[1]>> ELSE <<s[1]>>) \o Backslashed(Tail(s))

C10_ConversionOnlyOnText ==
    /\ Len(convs) <= 1
    /\ convs # <<>> => /\ queries = 1
                       /\ IsText(seen)
                       /\ convs[1] = seen.raw
    /\ (pc = "done" /\ ~IsText(seen)) => convs = <<>>

C10_Witness ==
    /\ pc = "done"
    /\ call.T = "String"
    /\ IsEmpty(seen)
    /\ convs = <<>>
    /\ result.kind # "InvalidValue"

====
